---- MODULE Spec2Model ----
(***************************************************************************)
(* devicely: the readers of two recording devices.                         *)
(*                                                                         *)
(*   SpacelabsReader (src/devicely/spacelabs.py): an ambulatory blood      *)
(*   pressure file, one row per reading with a time of day; the reader     *)
(*   reconstructs dates, timeshifts, deidentifies, drops "EB" rows, sets   *)
(*   windows and writes the file back.                                     *)
(*                                                                         *)
(*   EmpaticaReader (src/devicely/empatica.py): a directory of fixed-rate  *)
(*   signal files, an IBI file and a tags file; the reader joins the       *)
(*   signals, timeshifts and writes the files back.                        *)
(*                                                                         *)
(* Time.  Spacelabs instants are whole seconds since the epoch, dates are  *)
(* whole days since the epoch and times of day are seconds since midnight. *)
(* Empatica instants are ticks, TicksPerSec of them to a second.  In both  *)
(* the unit stands for pandas' nanosecond: the smallest representable      *)
(* step.                                                                   *)
(***************************************************************************)
EXTENDS Integers, Sequences, FiniteSets, TLC

VARIABLES
    reader,               \* which reader was constructed
    \* ---- SpacelabsReader ----
    subject,              \* self.subject
    valid_measurements,   \* self.valid_measurements
    data,                 \* self.data: the rows, in order
    index_name,           \* self.data.index.name: "range" or "timestamp"
    window_cols,          \* which of window_start / window_end are columns
    metadata,             \* self.metadata: key path -> leaf
    abp_in,               \* the file the reader was constructed from
    abp_out,              \* the file last written by write
    \* ---- EmpaticaReader ----
    start_times,          \* self.start_times: file name -> instant
    sample_freqs,         \* self.sample_freqs: signal name -> Hz
    signals,              \* self.ACC, self.BVP, self.EDA, self.HR, self.TEMP
    IBI,                  \* self.IBI
    tags,                 \* self.tags
    joined,               \* self.data, the joined dataframe
    e4_out,               \* the directory last written by write
    \* ---- the caller ----
    call,                 \* the last call: its name, argument and outcome
    steps                 \* the number of calls made so far

slvars == <<subject, valid_measurements, data, index_name, window_cols,
            metadata, abp_in, abp_out>>
e4vars == <<start_times, sample_freqs, signals, IBI, tags, joined, e4_out>>
vars == <<reader, slvars, e4vars, call, steps>>

(***************************************************************************)
(* Bounds of the model.                                                    *)
(***************************************************************************)
MaxRows == 3
MaxRollRows == 4
MaxCalls == 2

(***************************************************************************)
(* Cells.  A cell of a pandas column is a number, NaN or a string; a leaf  *)
(* of the metadata is a text, a number or None.                            *)
(***************************************************************************)
Num(n) == [t |-> "num", v |-> n]
Str(s) == [t |-> s, v |-> 0]
NaN == [t |-> "nan", v |-> 0]
None == [t |-> "None", v |-> 0]

SeqMap(Op(_), s) == [i \in 1..Len(s) |-> Op(s[i])]
SelectIdx(s, Test(_)) ==
    LET F[i \in 0..Len(s)] ==
            IF i = 0 THEN <<>>
            ELSE IF Test(s[i]) THEN Append(F[i - 1], s[i]) ELSE F[i - 1]
    IN  F[Len(s)]

(***************************************************************************)
(* Calendar arithmetic of datetime / pandas.                               *)
(***************************************************************************)
SecPerMin == 60
MinPerHour == 60
HourPerDay == 24
SecPerDay == HourPerDay * MinPerHour * SecPerMin

\* dt.time(hour=h, minute=m)
TimeOfDay(h, m) == (h * MinPerHour + m) * SecPerMin
\* dt.datetime.combine(date, time)
Combine(date, time) == date * SecPerDay + time
\* timestamp.date(), timestamp.time()
DateOf(ts) == ts \div SecPerDay
TimeOf(ts) == ts % SecPerDay
\* time.strftime("%H"), time.strftime("%M")
HourText(time) == time \div (MinPerHour * SecPerMin)
MinuteText(time) == (time \div SecPerMin) % MinPerHour

\* Timedelta.round('min') / Timestamp.round('min'): to the nearest whole
\* minute, a tie to the even minute.
RoundMin(d) ==
    LET q == d \div SecPerMin
        r == d % SecPerMin
    IN  IF 2 * r < SecPerMin THEN q * SecPerMin
        ELSE IF 2 * r > SecPerMin THEN (q + 1) * SecPerMin
        ELSE IF q % 2 = 0 THEN q * SecPerMin
        ELSE (q + 1) * SecPerMin

(***************************************************************************)
(* The abp file.  header is the sequence of its first non-blank lines      *)
(* (pd.read_csv skips blank lines), rows are the reading lines and xml is  *)
(* the trailing XML line, as a map from element path to text.  A text in   *)
(* the file is either a quoted string or a run of digits.                  *)
(***************************************************************************)
Quoted(s) == [q |-> TRUE, s |-> s, n |-> 0]
Digits(n) == [q |-> FALSE, s |-> "", n |-> n]

UnknownLine == "Unknown Line"
Placeholder == "xxxxxx"

\* read_csv's conversion of one field of a reading line
ParseField(f) ==
    IF ~f.q THEN Num(f.n)
    ELSE IF f.s = "" THEN NaN
    ELSE Str(f.s)

MetaPaths ==
    { <<"PATIENTINFO", "DOB">>, <<"PATIENTINFO", "RACE">>,
      <<"REPORTINFO", "PHYSICIAN">>, <<"REPORTINFO", "NURSETECH">>,
      <<"REPORTINFO", "STATUS">>,
      <<"REPORTINFO", "CALIPERSUMMARY", "COUNT">> }
CountPath == <<"REPORTINFO", "CALIPERSUMMARY", "COUNT">>

\* xml_root.find(..).find(..).text for every element the reader looks up;
\* only COUNT goes through int()
ParseXml(xml) ==
    [p \in MetaPaths |-> IF p = CountPath THEN Num(xml[p].n) ELSE Str(xml[p].s)]

\* a comparison that also rolls over on equal times
RolloverOnEqual(prev_time, cur_time) == prev_time >= cur_time
\* "Adjusting Date": previous_row.time > current_row.time
Rollover(prev_time, cur_time) == prev_time > cur_time

\* the date of row i (1-based) of the parsed rows

RECURSIVE DateAt(_, _, _)
DateAt(times, base_date, i) ==
    IF i = 1 THEN base_date
    ELSE LET current_date == DateAt(times, base_date, i - 1)
         IN  IF Rollover(times[i - 1], times[i])
             THEN current_date + 1
             ELSE current_date

\* One row of self.data as the constructor leaves it.  window_start and
\* window_end are columns only when window_cols says so.
ReadRow(r, date) ==
    LET time == TimeOfDay(r.hour, r.minute)
    IN  [timestamp |-> Combine(date, time), date |-> date, time |-> time,
         SYS |-> ParseField(r.SYS), DIA |-> ParseField(r.DIA),
         x |-> ParseField(r.x), y |-> ParseField(r.y), z |-> ParseField(r.z),
         error |-> ParseField(r.error),
         window_start |-> 0, window_end |-> 0]

\* SpacelabsReader.__init__: what the constructor makes of file f.  It
\* raises when the XML line lacks an element it looks up.
SpacelabsReader(f) ==
    LET hdr == f.header
        valid == IF hdr[5] # Quoted(UnknownLine) THEN hdr[5].s ELSE hdr[6].s
        base_date == hdr[3].n
        times == [i \in 1..Len(f.rows) |->
                     TimeOfDay(f.rows[i].hour, f.rows[i].minute)]
    IN  IF ~(MetaPaths \subseteq DOMAIN f.xml)
        THEN [ok |-> FALSE, subject |-> "", valid_measurements |-> "",
              data |-> <<>>, metadata |-> <<>>]
        ELSE [ok |-> TRUE,
              subject |-> hdr[1].s,
              valid_measurements |-> valid,
              data |-> [i \in 1..Len(f.rows) |->
                           ReadRow(f.rows[i], DateAt(times, base_date, i))],
              metadata |-> ParseXml(f.xml)]

(***************************************************************************)
(* SpacelabsReader.timeshift on the rows.  The timestamp of a row is the   *)
(* column before drop_EB and the row's key after it; the code shifts the   *)
(* one or the other by the same arithmetic.                                *)
(***************************************************************************)
\* the closing lines of timeshift: date and time are re-derived
\* a re-derivation that refreshes the time of day and keeps the stale date
RedateTimeOnly(rows) ==
    [i \in 1..Len(rows) |->
        [rows[i] EXCEPT !.time = TimeOf(rows[i].timestamp)]]
Redate(rows) ==
    [i \in 1..Len(rows) |->
        [rows[i] EXCEPT !.date = DateOf(rows[i].timestamp),
                        !.time = TimeOf(rows[i].timestamp)]]

\* a shift that assigns the duration where the code adds it
ShiftByAssign(rows, shift) ==
    Redate([i \in 1..Len(rows) |->
               [rows[i] EXCEPT !.timestamp = RoundMin(shift)]])
\* isinstance(shift, pd.Timedelta)
ShiftBy(rows, shift) ==
    Redate([i \in 1..Len(rows) |->
               [rows[i] EXCEPT !.timestamp = @ + RoundMin(shift)]])

\* isinstance(shift, pd.Timestamp); rows is not empty
ShiftTo(rows, shift) ==
    Redate([i \in 1..Len(rows) |->
               [rows[i] EXCEPT !.timestamp =
                   RoundMin(shift) + (@ - rows[1].timestamp)]])

(***************************************************************************)
(* SpacelabsReader.drop_EB, set_window, deidentify on their structures.    *)
(***************************************************************************)
NotEB(r) == r.error # Str("EB")
\* self.data[self.data.error != 'EB']
Surviving(rows) == SelectIdx(rows, NotEB)

KnownWindowTypes == {"bffill", "bfill", "ffill"}

\* the two columns set_window assigns when the rows are keyed by timestamp
WindowStart(ts, window_duration, window_type) ==
    IF window_type = "bffill" THEN ts - window_duration \div 2
    ELSE IF window_type = "bfill" THEN ts - window_duration
    ELSE ts
\* a window_end whose 'bfill' branch took the 'ffill' arithmetic
WindowEndSwapped(ts, window_duration, window_type) ==
    IF window_type = "bffill" THEN ts + window_duration \div 2
    ELSE IF window_type = "bfill" THEN ts + window_duration
    ELSE ts + window_duration
WindowEnd(ts, window_duration, window_type) ==
    IF window_type = "bffill" THEN ts + window_duration \div 2
    ELSE IF window_type = "bfill" THEN ts
    ELSE ts + window_duration

\* for key in self.metadata: self.metadata[key] = None
TopKeys(md) == { <<p[1]>> : p \in DOMAIN md }
Erased(md) == [k \in TopKeys(md) |-> None]

\* if subject_id: ... else: 'xxxxxx'   ("" stands for None, both falsy)
NewSubject(subject_id) == IF subject_id # "" THEN subject_id ELSE Placeholder

(***************************************************************************)
(* SpacelabsReader.write.                                                  *)
(***************************************************************************)
MissingCode == -9999
EBCode == -9998
ABCode == -9997

\* fillna(-9999), replace('EB', -9998), replace('AB', -9997), astype(int)
Encoded(c) ==
    IF c.t = "nan" THEN MissingCode
    ELSE IF c.t = "EB" THEN EBCode
    ELSE IF c.t = "AB" THEN ABCode
    ELSE c.v
\* astype(str), then replace('-9999', '""') and the two flags
WriteField(c) ==
    LET n == Encoded(c)
    IN  IF n = MissingCode THEN Quoted("")
        ELSE IF n = EBCode THEN Quoted("EB")
        ELSE IF n = ABCode THEN Quoted("AB")
        ELSE Digits(n)

WriteRow(r) ==
    [hour |-> HourText(r.time), minute |-> MinuteText(r.time),
     SYS |-> WriteField(r.SYS), DIA |-> WriteField(r.DIA),
     x |-> WriteField(r.x), y |-> WriteField(r.y),
     error |-> WriteField(r.error), z |-> WriteField(r.z)]

\* xmltodict.unparse({'XML': self.metadata}): None is an empty element
UnparseXml(md) ==
    [p \in DOMAIN md |->
        IF md[p].t = "num" THEN Digits(md[p].v)
        ELSE IF md[p] = None THEN Quoted("")
        ELSE Quoted(md[p].t)]

NoFile == [header |-> <<>>, rows |-> <<>>, xml |-> <<>>]

\* the file write leaves behind; with no row, self.data.date[0] raises after
\* the subject line and the "0" line were written
WriteAbp(subj, valid, rows, md) ==
    IF rows = <<>>
    THEN [header |-> <<Quoted(subj), Quoted("0")>>, rows |-> <<>>, xml |-> <<>>]
    ELSE [header |-> <<Quoted(subj), Quoted("0"), Digits(rows[1].date),
                       Quoted(UnknownLine), Quoted(valid)>>,
          rows |-> [i \in 1..Len(rows) |-> WriteRow(rows[i])],
          xml |-> UnparseXml(md)]

(***************************************************************************)
(* EmpaticaReader: the files of a session directory.  An instant or an     *)
(* offset is written in a file as a decimal number of seconds, which the   *)
(* model holds as whole seconds and a fraction in ticks.                   *)
(***************************************************************************)
TicksPerSec == 4

SecText(ticks) == [sec |-> ticks \div TicksPerSec, frac |-> ticks % TicksPerSec]
\* value // 1e9
WholeSecText(ticks) == [sec |-> ticks \div TicksPerSec, frac |-> 0]
\* pd.Timestamp(float(text), unit='s'), pd.to_timedelta(.., unit='s')
FromSecText(txt) == txt.sec * TicksPerSec + txt.frac

\* the order of `variables` in timeshift and _get_joined_dataframe
SignalOrder == <<"ACC", "BVP", "EDA", "HR", "TEMP">>
SignalNames == {"ACC", "BVP", "EDA", "HR", "TEMP"}
FileNames == SignalNames \cup {"IBI"}

Absent == [present |-> FALSE, rows |-> <<>>]
Table(rows) == [present |-> TRUE, rows |-> rows]

\* freq=f"{1 / sample_freq}S": the step of pd.date_range
Period(sample_freq) == TicksPerSec \div sample_freq

\* _read_signal: None for a missing or empty file, else the values indexed
\* by pd.date_range(start, freq, periods)
ReadSignal(file) ==
    IF ~file.present THEN Absent
    ELSE Table([k \in 1..Len(file.values) |->
                  [t |-> FromSecText(file.start) + (k - 1) * Period(file.freq),
                   v |-> file.values[k]]])

\* _read_ibi: start_time + the offset of each entry
ReadIbi(file) ==
    IF ~file.present THEN Absent
    ELSE Table([k \in 1..Len(file.entries) |->
                  [t |-> FromSecText(file.start) + FromSecText(file.entries[k].time),
                   v |-> file.entries[k].IBI]])

\* _read_tags
ReadTags(file) ==
    IF ~file.present THEN Absent
    ELSE Table([k \in 1..Len(file.instants) |->
                  [t |-> FromSecText(file.instants[k])]])

(***************************************************************************)
(* _get_joined_dataframe.                                                  *)
(***************************************************************************)
Columns(name) ==
    IF name = "ACC" THEN <<"ACC_X", "ACC_Y", "ACC_Z">> ELSE <<name>>

Index(table) == [k \in 1..Len(table.rows) |-> table.rows[k].t]

\* pd.concat of the indexes of the signals that are not None
RECURSIVE ConcatIndex(_, _)
ConcatIndex(sigs, i) ==
    IF i = 0 THEN <<>>
    ELSE ConcatIndex(sigs, i - 1) \o
         (IF sigs[SignalOrder[i]].present
          THEN Index(sigs[SignalOrder[i]]) ELSE <<>>)

\* an index that keeps its duplicates
KeepDuplicates(idx) == idx
\* Series.drop_duplicates: the first of each value is kept
DropDuplicates(idx) ==
    LET F[i \in 0..Len(idx)] ==
            IF i = 0 THEN <<>>
            ELSE IF \E j \in 1..(i - 1) : idx[j] = idx[i] THEN F[i - 1]
            ELSE Append(F[i - 1], idx[i])
    IN  F[Len(idx)]

\* Series.sort_values: ascending
Insert(sorted, x) ==
    LET n == Cardinality({ j \in 1..Len(sorted) : sorted[j] <= x })
    IN  SubSeq(sorted, 1, n) \o <<x>> \o SubSeq(sorted, n + 1, Len(sorted))
SortValues(idx) ==
    LET F[i \in 0..Len(idx)] ==
            IF i = 0 THEN <<>> ELSE Insert(F[i - 1], idx[i])
    IN  F[Len(idx)]

\* joined_dataframe.loc[signal.index, column] = signal[column]: the cell of
\* key t in the c-th column of a signal
Cell(table, t, c) ==
    IF \E k \in 1..Len(table.rows) : table.rows[k].t = t
    THEN LET k == CHOOSE k \in 1..Len(table.rows) : table.rows[k].t = t
         IN  Num(table.rows[k].v[c])
    ELSE NaN

JoinedColumns(sigs) ==
    UNION { { Columns(n)[c] : c \in 1..Len(Columns(n)) }
            : n \in { m \in SignalNames : sigs[m].present } }
SignalOf(col) == CHOOSE n \in SignalNames : \E c \in 1..Len(Columns(n)) : Columns(n)[c] = col
ColumnNo(col) == CHOOSE c \in 1..3 : c <= Len(Columns(SignalOf(col))) /\ Columns(SignalOf(col))[c] = col

GetJoinedDataframe(sigs) ==
    IF \A n \in SignalNames : ~sigs[n].present THEN Absent
    ELSE LET joined_idx ==
                 SortValues(DropDuplicates(ConcatIndex(sigs, Len(SignalOrder))))
         IN  Table([k \in 1..Len(joined_idx) |->
                 [t |-> joined_idx[k],
                  v |-> [col \in JoinedColumns(sigs) |->
                           Cell(sigs[SignalOf(col)], joined_idx[k],
                                ColumnNo(col))]]])

(***************************************************************************)
(* EmpaticaReader.__init__ on a session directory: one file record per     *)
(* file name, present when the file exists and is not empty.               *)
(***************************************************************************)
EmpaticaReader(dir) ==
    LET sigs == [n \in SignalNames |-> ReadSignal(dir[n])]
    IN  [start_times |->
             [n \in { m \in FileNames : dir[m].present } |->
                 FromSecText(dir[n].start)],
         sample_freqs |->
             [n \in { m \in SignalNames : dir[m].present } |-> dir[n].freq],
         signals |-> sigs,
         IBI |-> ReadIbi(dir["IBI"]),
         tags |-> ReadTags(dir["tags"]),
         joined |-> GetJoinedDataframe(sigs)]

(***************************************************************************)
(* EmpaticaReader.timeshift.                                               *)
(***************************************************************************)
Min(S) == CHOOSE m \in S : \A x \in S : m <= x
Range(f) == { f[x] : x \in DOMAIN f }

\* dataframe.index += shift, self.tags += shift
Moved(table, shift) ==
    IF ~table.present THEN table
    ELSE Table([k \in 1..Len(table.rows) |->
                  [table.rows[k] EXCEPT !.t = @ + shift]])

\* dataframe.index = shift + (dataframe.index - dataframe.index.min())
Anchored(table, shift) ==
    IF ~table.present \/ table.rows = <<>> THEN table
    ELSE LET lo == Min(Range(Index(table)))
         IN  Table([k \in 1..Len(table.rows) |->
                       [table.rows[k] EXCEPT !.t = shift + (@ - lo)]])

\* isinstance(shift, pd.Timedelta): the start times, the tags and the
\* dataframes ACC, BVP, EDA, HR, TEMP and data; self.IBI is not among them
TimeshiftBy(r, shift) ==
    [r EXCEPT !.start_times =
                  [n \in DOMAIN r.start_times |-> r.start_times[n] + shift],
              !.tags = Moved(r.tags, shift),
              !.signals = [n \in SignalNames |-> Moved(r.signals[n], shift)],
              !.joined = Moved(r.joined, shift)]

\* isinstance(shift, pd.Timestamp), with some start time recorded
TimeshiftTo(r, shift) ==
    LET min_start_time == Min(Range(r.start_times))
    IN  [r EXCEPT !.start_times =
                      [n \in DOMAIN r.start_times |->
                          shift + (r.start_times[n] - min_start_time)],
                  !.tags = Anchored(r.tags, shift),
                  !.signals =
                      [n \in SignalNames |-> Anchored(r.signals[n], shift)],
                  !.joined = Anchored(r.joined, shift)]

(***************************************************************************)
(* EmpaticaReader.write.                                                   *)
(***************************************************************************)
MissingSignal == [present |-> FALSE, start |-> SecText(0), freq |-> 1, values |-> <<>>]
MissingIbi == [present |-> FALSE, start |-> SecText(0), entries |-> <<>>]
MissingTags == [present |-> FALSE, instants |-> <<>>]

\* _write_signal
WriteSignal(r, name) ==
    IF ~r.signals[name].present THEN MissingSignal
    ELSE [present |-> TRUE,
          start |-> SecText(r.start_times[name]),
          freq |-> r.sample_freqs[name],
          values |-> [k \in 1..Len(r.signals[name].rows) |->
                         r.signals[name].rows[k].v]]

\* _write_ibi
WriteIbi(r) ==
    IF ~r.IBI.present THEN MissingIbi
    ELSE [present |-> TRUE,
          start |-> WholeSecText(r.start_times["IBI"]),
          entries |-> [k \in 1..Len(r.IBI.rows) |->
                          [time |-> SecText(r.IBI.rows[k].t - r.start_times["IBI"]),
                           IBI |-> r.IBI.rows[k].v]]]

\* _write_tags
WriteTags(r) ==
    IF ~r.tags.present THEN MissingTags
    ELSE [present |-> TRUE,
          instants |-> [k \in 1..Len(r.tags.rows) |-> SecText(r.tags.rows[k].t)]]

WriteDir(r) ==
    [n \in FileNames \cup {"tags"} |->
        IF n = "IBI" THEN WriteIbi(r)
        ELSE IF n = "tags" THEN WriteTags(r)
        ELSE WriteSignal(r, n)]

NoDir ==
    [n \in FileNames \cup {"tags"} |->
        IF n = "IBI" THEN MissingIbi
        ELSE IF n = "tags" THEN MissingTags
        ELSE MissingSignal]

(***************************************************************************)
(* The abp files the model reads, and the arguments the caller passes.     *)
(***************************************************************************)
TimesOfDay == { <<23, 58>>, <<23, 59>>, <<0, 1>>, <<0, 5>> }
NightTimes == { <<23, 59>>, <<0, 1>> }

ValidReading ==
    [SYS |-> Digits(120), DIA |-> Digits(80), x |-> Digits(1), y |-> Digits(2),
     error |-> Quoted(""), z |-> Digits(3)]
EBReading ==
    [SYS |-> Quoted(""), DIA |-> Quoted(""), x |-> Quoted(""), y |-> Quoted(""),
     error |-> Quoted("EB"), z |-> Quoted("")]
ABReading ==
    [SYS |-> Digits(120), DIA |-> Quoted(""), x |-> Digits(1), y |-> Digits(2),
     error |-> Quoted("AB"), z |-> Digits(3)]
Readings == {ValidReading, EBReading, ABReading}

FileRow(tod, rd) ==
    [hour |-> tod[1], minute |-> tod[2], SYS |-> rd.SYS, DIA |-> rd.DIA,
     x |-> rd.x, y |-> rd.y, error |-> rd.error, z |-> rd.z]

FileRows(max_rows, times, readings) ==
    UNION { [1..n -> { FileRow(tod, rd) : tod \in times, rd \in readings }]
            : n \in 1..max_rows }

BaseDates == {11000}
InputXml ==
    [p \in MetaPaths |->
        IF p = CountPath THEN Digits(7) ELSE Quoted(p[Len(p)])]

\* the two header layouts: the valid-measurement count on the fifth
\* non-blank line, or a line later behind the 'Unknown Line' marker
Headers ==
    { <<Quoted("000002"), Quoted("0"), Digits(d), Quoted(UnknownLine), Quoted("12")>>
        : d \in BaseDates }
    \cup
    { <<Quoted("000002"), Quoted("0"), Digits(d), Quoted("0"),
        Quoted(UnknownLine), Quoted("12")>> : d \in BaseDates }

AbpFiles(max_rows, times, readings) ==
    { [header |-> h, rows |-> rs, xml |-> InputXml]
        : h \in Headers, rs \in FileRows(max_rows, times, readings) }

\* timeshift's arguments, in seconds: relative shifts, anchor instants, and
\* the draws of the default mode (30 to 730 days, rounded, into the past)
SLDeltas == {-90, 20, 60}
SLAnchors == {10000 * SecPerDay + 30, 12000 * SecPerDay + 12 * SecPerMin}
SLRandomDraws == {30 * SecPerDay, 730 * SecPerDay}
WindowDurations == {4, 5}
WindowTypes == KnownWindowTypes \cup {"center"}
SubjectIds == {"", "anon"}

(***************************************************************************)
(* SpacelabsReader: construction and the calls.                            *)
(***************************************************************************)
Called(name, kind, arg, raised) ==
    [name |-> name, kind |-> kind, arg |-> arg, raised |-> raised]

\* the attributes of the reader that was not constructed
E4Idle ==
    /\ start_times = <<>>
    /\ sample_freqs = <<>>
    /\ signals = [n \in SignalNames |-> Absent]
    /\ IBI = Absent
    /\ tags = Absent
    /\ joined = Absent
    /\ e4_out = NoDir

SLIdle ==
    /\ subject = ""
    /\ valid_measurements = ""
    /\ data = <<>>
    /\ index_name = "range"
    /\ window_cols = {}
    /\ metadata = <<>>
    /\ abp_in = NoFile
    /\ abp_out = NoFile

SLInitFrom(files) ==
    \E f \in files :
        LET r == SpacelabsReader(f)
        IN  /\ r.ok
            /\ reader = "SpacelabsReader"
            /\ subject = r.subject
            /\ valid_measurements = r.valid_measurements
            /\ data = r.data
            /\ index_name = "range"
            /\ window_cols = {}
            /\ metadata = r.metadata
            /\ abp_in = f
            /\ abp_out = NoFile
            /\ call = Called("init", "", 0, "")
            /\ steps = 0
            /\ E4Idle

SLInit == SLInitFrom(AbpFiles(MaxRows, NightTimes, Readings))

SLTimeshiftDelta(shift) ==
    /\ reader = "SpacelabsReader"
    /\ steps < MaxCalls
    /\ data' = ShiftBy(data, shift)
    /\ call' = Called("timeshift", "Timedelta", shift, "")
    /\ steps' = steps + 1
    /\ UNCHANGED <<subject, valid_measurements, index_name, window_cols,
                   metadata, abp_in, abp_out>>
    /\ UNCHANGED <<reader, e4vars>>

SLTimeshiftRandom(draw) ==
    /\ reader = "SpacelabsReader"
    /\ steps < MaxCalls
    /\ data' = ShiftBy(data, - RoundMin(draw))
    /\ call' = Called("timeshift", "random", - RoundMin(draw), "")
    /\ steps' = steps + 1
    /\ UNCHANGED <<subject, valid_measurements, index_name, window_cols,
                   metadata, abp_in, abp_out>>
    /\ UNCHANGED <<reader, e4vars>>

\* with no row left, self.data.index[0] raises
SLTimeshiftAnchor(shift) ==
    /\ reader = "SpacelabsReader"
    /\ steps < MaxCalls
    /\ IF data = <<>>
       THEN /\ call' = Called("timeshift", "Timestamp", shift, "IndexError")
            /\ UNCHANGED data
       ELSE /\ call' = Called("timeshift", "Timestamp", shift, "")
            /\ data' = ShiftTo(data, shift)
    /\ steps' = steps + 1
    /\ UNCHANGED <<subject, valid_measurements, index_name, window_cols,
                   metadata, abp_in, abp_out>>
    /\ UNCHANGED <<reader, e4vars>>

\* a second drop_EB finds no 'timestamp' column to make the index of
drop_EB ==
    /\ reader = "SpacelabsReader"
    /\ steps < MaxCalls
    /\ data' = Surviving(data)
    /\ index_name' = "timestamp"
    /\ call' = Called("drop_EB", "", 0,
                      IF index_name = "timestamp" THEN "KeyError" ELSE "")
    /\ steps' = steps + 1
    /\ UNCHANGED <<subject, valid_measurements, window_cols, metadata,
                   abp_in, abp_out>>
    /\ UNCHANGED <<reader, e4vars>>

\* Keyed by timestamp, the two columns are assigned.  Under the range index
\* the first arithmetic on the index raises TypeError: for 'bffill' and
\* 'bfill' before any column is assigned, for 'ffill' after window_start
\* took the row labels 0, 1, ...  Any other window_type matches no branch.
set_window(window_duration, window_type) ==
    /\ reader = "SpacelabsReader"
    /\ steps < MaxCalls
    /\ IF window_type \notin KnownWindowTypes
       THEN /\ call' = Called("set_window", window_type, window_duration, "")
            /\ UNCHANGED <<data, window_cols>>
       ELSE IF index_name = "timestamp"
       THEN /\ call' = Called("set_window", window_type, window_duration, "")
            /\ data' = [i \in 1..Len(data) |->
                  [data[i] EXCEPT
                     !.window_start = WindowStart(data[i].timestamp,
                                          window_duration, window_type),
                     !.window_end = WindowEnd(data[i].timestamp,
                                          window_duration, window_type)]]
            /\ window_cols' = {"window_start", "window_end"}
       ELSE IF window_type = "ffill"
       THEN /\ call' = Called("set_window", window_type, window_duration,
                              "TypeError")
            /\ data' = [i \in 1..Len(data) |->
                           [data[i] EXCEPT !.window_start = i - 1]]
            /\ window_cols' = window_cols \cup {"window_start"}
       ELSE /\ call' = Called("set_window", window_type, window_duration,
                              "TypeError")
            /\ UNCHANGED <<data, window_cols>>
    /\ steps' = steps + 1
    /\ UNCHANGED <<subject, valid_measurements, index_name, metadata,
                   abp_in, abp_out>>
    /\ UNCHANGED <<reader, e4vars>>

deidentify(subject_id) ==
    /\ reader = "SpacelabsReader"
    /\ steps < MaxCalls
    /\ subject' = NewSubject(subject_id)
    /\ metadata' = Erased(metadata)
    /\ call' = Called("deidentify", subject_id, 0, "")
    /\ steps' = steps + 1
    /\ UNCHANGED <<valid_measurements, data, index_name, window_cols,
                   abp_in, abp_out>>
    /\ UNCHANGED <<reader, e4vars>>

SLWrite ==
    /\ reader = "SpacelabsReader"
    /\ steps < MaxCalls
    /\ abp_out' = WriteAbp(subject, valid_measurements, data, metadata)
    /\ call' = Called("write", "", 0, IF data = <<>> THEN "IndexError" ELSE "")
    /\ steps' = steps + 1
    /\ UNCHANGED <<subject, valid_measurements, data, index_name, window_cols,
                   metadata, abp_in>>
    /\ UNCHANGED <<reader, e4vars>>



(***************************************************************************)
(* The session directories the model reads, and timeshift's arguments in   *)
(* ticks.                                                                  *)
(***************************************************************************)
MaxSamples == 3

\* the sampling rate the device gives each signal, in Hz
RateOf(name) ==
    IF name = "BVP" THEN 4
    ELSE IF name \in {"ACC", "TEMP"} THEN 2
    ELSE 1
SignalNo(name) == CHOOSE i \in 1..Len(SignalOrder) : SignalOrder[i] = name
ValuesOf(name) ==
    [k \in 1..MaxSamples |->
        IF name = "ACC"
        THEN <<100 + k, 200 + k, 300 + k>>
        ELSE <<10 * SignalNo(name) + k>>]

E4Starts == {1000000 * TicksPerSec, 1000000 * TicksPerSec + 2}
IbiStarts == {1000000 * TicksPerSec, 1000000 * TicksPerSec + 1}

SignalFiles(name) ==
    {MissingSignal} \cup
    { [present |-> TRUE, start |-> SecText(st), freq |-> RateOf(name),
       values |-> ValuesOf(name)] : st \in E4Starts }
IbiFiles ==
    {MissingIbi} \cup
    { [present |-> TRUE, start |-> SecText(st),
       entries |-> << [time |-> SecText(3), IBI |-> 3],
                      [time |-> SecText(6), IBI |-> 3] >>] : st \in IbiStarts }
TagsFiles ==
    { MissingTags,
      [present |-> TRUE,
       instants |-> << SecText(1000000 * TicksPerSec + 5),
                       SecText(1000000 * TicksPerSec + 9) >>] }

SessionDirs ==
    { [ACC |-> acc, BVP |-> bvp, EDA |-> eda, HR |-> hr, TEMP |-> temp,
       IBI |-> ibi, tags |-> tg] :
        acc \in SignalFiles("ACC"), bvp \in SignalFiles("BVP"),
        eda \in SignalFiles("EDA"), hr \in SignalFiles("HR"),
        temp \in SignalFiles("TEMP"), ibi \in IbiFiles, tg \in TagsFiles }

E4Deltas == {-3, 6}
E4Anchors == {2000000 * TicksPerSec + 1}
E4RandomDraws == {-30 * SecPerDay * TicksPerSec, -730 * SecPerDay * TicksPerSec + 1}

(***************************************************************************)
(* EmpaticaReader: construction and the calls.                             *)
(***************************************************************************)
Self == [start_times |-> start_times, sample_freqs |-> sample_freqs,
         signals |-> signals, IBI |-> IBI, tags |-> tags, joined |-> joined]

Becomes(r) ==
    /\ start_times' = r.start_times
    /\ sample_freqs' = r.sample_freqs
    /\ signals' = r.signals
    /\ IBI' = r.IBI
    /\ tags' = r.tags
    /\ joined' = r.joined

E4Init ==
    \E dir \in SessionDirs :
        LET r == EmpaticaReader(dir)
        IN  /\ reader = "EmpaticaReader"
            /\ start_times = r.start_times
            /\ sample_freqs = r.sample_freqs
            /\ signals = r.signals
            /\ IBI = r.IBI
            /\ tags = r.tags
            /\ joined = r.joined
            /\ e4_out = NoDir
            /\ call = Called("init", "", 0, "")
            /\ steps = 0
            /\ SLIdle

E4TimeshiftDelta(shift) ==
    /\ reader = "EmpaticaReader"
    /\ steps < MaxCalls
    /\ Becomes(TimeshiftBy(Self, shift))
    /\ call' = Called("timeshift", "Timedelta", shift, "")
    /\ steps' = steps + 1
    /\ UNCHANGED <<reader, slvars, e4_out>>

E4TimeshiftRandom(draw) ==
    /\ reader = "EmpaticaReader"
    /\ steps < MaxCalls
    /\ Becomes(TimeshiftBy(Self, draw))
    /\ call' = Called("timeshift", "random", draw, "")
    /\ steps' = steps + 1
    /\ UNCHANGED <<reader, slvars, e4_out>>

\* with no start time recorded, min() of an empty sequence raises
E4TimeshiftAnchor(shift) ==
    /\ reader = "EmpaticaReader"
    /\ steps < MaxCalls
    /\ IF DOMAIN start_times = {}
       THEN /\ call' = Called("timeshift", "Timestamp", shift, "ValueError")
            /\ UNCHANGED <<start_times, sample_freqs, signals, IBI, tags, joined>>
       ELSE /\ call' = Called("timeshift", "Timestamp", shift, "")
            /\ Becomes(TimeshiftTo(Self, shift))
    /\ steps' = steps + 1
    /\ UNCHANGED <<reader, slvars, e4_out>>

E4Write ==
    /\ reader = "EmpaticaReader"
    /\ steps < MaxCalls
    /\ e4_out' = WriteDir(Self)
    /\ call' = Called("write", "", 0, "")
    /\ steps' = steps + 1
    /\ UNCHANGED <<reader, slvars, start_times, sample_freqs, signals, IBI,
                   tags, joined>>

(***************************************************************************)
(* The program: one of the two readers is constructed from its input and   *)
(* then called.                                                            *)
(***************************************************************************)
SLNext ==
    \/ \E shift \in SLDeltas : SLTimeshiftDelta(shift)
    \/ \E draw \in SLRandomDraws : SLTimeshiftRandom(draw)
    \/ \E shift \in SLAnchors : SLTimeshiftAnchor(shift)
    \/ drop_EB
    \/ \E d \in WindowDurations, wt \in WindowTypes : set_window(d, wt)
    \/ \E sid \in SubjectIds : deidentify(sid)
    \/ SLWrite

E4Next ==
    \/ \E shift \in E4Deltas : E4TimeshiftDelta(shift)
    \/ \E draw \in E4RandomDraws : E4TimeshiftRandom(draw)
    \/ \E shift \in E4Anchors : E4TimeshiftAnchor(shift)
    \/ E4Write

Init == SLInit \/ E4Init
Next == SLNext \/ E4Next

\* either reader, constructed and called
Spec == Init /\ [][Next]_vars
\* a SpacelabsReader
SpecSL == SLInit /\ [][SLNext]_vars
\* an EmpaticaReader
SpecE4 == E4Init /\ [][E4Next]_vars
\* a SpacelabsReader of a longer file of valid readings, at any of the four
\* times of day around midnight
SLRollInit == SLInitFrom(AbpFiles(MaxRollRows, TimesOfDay, {ValidReading}))
RollNext == SLWrite
\* read, then written
SpecRoll == SLRollInit /\ [][RollNext]_vars

\* either reader, constructed and timeshifted
ShiftNext ==
    \/ \E shift \in SLDeltas : SLTimeshiftDelta(shift)
    \/ \E draw \in SLRandomDraws : SLTimeshiftRandom(draw)
    \/ \E shift \in SLAnchors : SLTimeshiftAnchor(shift)
    \/ drop_EB
    \/ \E shift \in E4Deltas : E4TimeshiftDelta(shift)
    \/ \E draw \in E4RandomDraws : E4TimeshiftRandom(draw)
    \/ \E shift \in E4Anchors : E4TimeshiftAnchor(shift)
SLShiftInit == SLInitFrom(AbpFiles(MaxRows, NightTimes, {ValidReading, EBReading}))
SpecShift == (SLShiftInit \/ E4Init) /\ [][ShiftNext]_vars

\* a SpacelabsReader that is timeshifted, filtered and given windows
RecordNext ==
    \/ \E shift \in SLDeltas : SLTimeshiftDelta(shift)
    \/ \E draw \in SLRandomDraws : SLTimeshiftRandom(draw)
    \/ \E shift \in SLAnchors : SLTimeshiftAnchor(shift)
    \/ drop_EB
    \/ \E d \in WindowDurations, wt \in KnownWindowTypes : set_window(d, wt)
SpecRecord == SLShiftInit /\ [][RecordNext]_vars

\* a SpacelabsReader whose rows are filtered and given windows
WindowNext ==
    \/ drop_EB
    \/ \E d \in WindowDurations, wt \in WindowTypes : set_window(d, wt)
SpecWindow == SLInit /\ [][WindowNext]_vars

(***************************************************************************)
(* The claims.                                                             *)
(***************************************************************************)
IsSL == reader = "SpacelabsReader"
IsE4 == reader = "EmpaticaReader"
Constructed == call.name = "init"

\* the time of day and the base date as the file states them
FileTime(i) == TimeOfDay(abp_in.rows[i].hour, abp_in.rows[i].minute)
FileBaseDate == abp_in.header[3].n

\* C2: on read, row 0 takes the base date, every later row takes the date
\* of the row before it, a day later exactly when its time of day is
\* strictly less than that row's, and its timestamp combines its date and
\* its time of day.
C2_Rollover ==
    (IsSL /\ Constructed) =>
        /\ Len(data) = Len(abp_in.rows)
        /\ data[1].date = FileBaseDate
        /\ \A i \in 2..Len(data) :
               data[i].date = IF FileTime(i) < FileTime(i - 1)
                              THEN data[i - 1].date + 1
                              ELSE data[i - 1].date
        /\ \A i \in 1..Len(data) :
               /\ data[i].time = FileTime(i)
               /\ data[i].timestamp = Combine(data[i].date, data[i].time)

\* C2's case: the times 23:58, 23:59, 00:01, 00:05 were read with base date
\* D and the dates are D, D, D+1, D+1.
C2_Witness ==
    /\ IsSL /\ Constructed
    /\ Len(data) = 4
    /\ [i \in 1..4 |-> data[i].time] =
           <<TimeOfDay(23, 58), TimeOfDay(23, 59), TimeOfDay(0, 1), TimeOfDay(0, 5)>>
    /\ [i \in 1..4 |-> data[i].date - FileBaseDate] = <<0, 0, 1, 1>>

\* the timestamps of a signal, the keys of the joined table
Instants(table) == { table.rows[k].t : k \in 1..Len(table.rows) }
PresentSignals == { n \in SignalNames : signals[n].present }
Samples(n, t) == { k \in 1..Len(signals[n].rows) : signals[n].rows[k].t = t }

\* C3: the joined table as constructed is keyed by the sorted, de-duplicated
\* union of the present signals' timestamps, and the cell of key t in a
\* column of signal s is s's own value at t when s has a sample at t and
\* is missing otherwise.
C3_JoinFidelity ==
    (IsE4 /\ Constructed) =>
        /\ joined.present <=> PresentSignals # {}
        /\ Instants(joined) = UNION { Instants(signals[n]) : n \in PresentSignals }
        /\ \A k \in 2..Len(joined.rows) : joined.rows[k - 1].t < joined.rows[k].t
        /\ \A k \in 1..Len(joined.rows) :
              /\ DOMAIN joined.rows[k].v = JoinedColumns(signals)
              /\ \A n \in PresentSignals : \A c \in 1..Len(Columns(n)) :
                    LET cell == joined.rows[k].v[Columns(n)[c]]
                        at == Samples(n, joined.rows[k].t)
                    IN  IF at = {} THEN cell = NaN
                        ELSE \A j \in at : cell = Num(signals[n].rows[j].v[c])

\* C3's case: two signals of different rates share some instants and not
\* others, so the table has fewer keys than samples and a missing cell.
C3_Witness ==
    /\ IsE4 /\ Constructed
    /\ {"ACC", "BVP"} \subseteq PresentSignals
    /\ Instants(signals["ACC"]) \cap Instants(signals["BVP"]) # {}
    /\ \E k \in 1..Len(joined.rows) :
          /\ joined.rows[k].v["BVP"] = NaN
          /\ joined.rows[k].v["ACC_Y"] # NaN
    /\ \E k \in 1..Len(joined.rows) :
          /\ joined.rows[k].v["BVP"] # NaN
          /\ joined.rows[k].v["ACC_Y"] # NaN

\* every instant an EmpaticaReader holds
E4Instants ==
    UNION { Instants(signals[n]) : n \in SignalNames }
    \cup Instants(joined) \cup Instants(IBI) \cup Instants(tags)
    \cup Range(start_times)
\* every temporal field of the EmpaticaReader moves by off in this step
E4MovedBy(off) ==
    /\ start_times' = [n \in DOMAIN start_times |-> start_times[n] + off]
    /\ signals' = [n \in SignalNames |-> Moved(signals[n], off)]
    /\ joined' = Moved(joined, off)
    /\ IBI' = Moved(IBI, off)
    /\ tags' = Moved(tags, off)
\* every row timestamp of the SpacelabsReader moves by off in this step
SLMovedBy(off) ==
    /\ Len(data') = Len(data)
    /\ \A i \in 1..Len(data) : data'[i].timestamp = data[i].timestamp + off
SLInstants == { data[i].timestamp : i \in 1..Len(data) }

Shifted(kind) ==
    call'.name = "timeshift" /\ call'.kind = kind /\ call'.raised = ""

\* C1: a timeshift moves every temporal field of the record set by one
\* offset: the shift itself when it is relative, the target less the
\* minimum timestamp of the whole record set when it is anchored (the
\* shift or target rounded to whole minutes for the Spacelabs reader).
C1_UniformTranslation ==
    [][ /\ (IsE4 /\ (Shifted("Timedelta") \/ Shifted("random")))
            => E4MovedBy(call'.arg)
        /\ (IsE4 /\ Shifted("Timestamp"))
            => E4MovedBy(call'.arg - Min(E4Instants))
        /\ (IsSL /\ (Shifted("Timedelta") \/ Shifted("random")))
            => SLMovedBy(RoundMin(call'.arg))
        /\ (IsSL /\ Shifted("Timestamp"))
            => SLMovedBy(RoundMin(call'.arg) - Min(SLInstants)) ]_vars

\* C4 as claimed: two relative shifts in a row leave the timestamps that the
\* one shift by their sum leaves, for both readers and any durations.
C4_Composition ==
    /\ IsSL => \A d1, d2 \in SLDeltas :
                   ShiftBy(ShiftBy(data, d1), d2) = ShiftBy(data, d1 + d2)
    /\ IsE4 => \A d1, d2 \in E4Deltas :
                   TimeshiftBy(TimeshiftBy(Self, d1), d2) = TimeshiftBy(Self, d1 + d2)

WholeMinutes(d) == d % SecPerMin = 0

\* C4 as amended: for the Empatica reader two relative shifts in a row equal
\* the shift by their sum; for the Spacelabs reader they equal the shift by
\* the sum of the two rounded durations, which is the shift by the sum of
\* the durations when both are whole minutes.
C4_CompositionRounded ==
    /\ IsSL => \A d1, d2 \in SLDeltas :
                 /\ ShiftBy(ShiftBy(data, d1), d2)
                        = ShiftBy(data, RoundMin(d1) + RoundMin(d2))
                 /\ (WholeMinutes(d1) /\ WholeMinutes(d2))
                        => ShiftBy(ShiftBy(data, d1), d2) = ShiftBy(data, d1 + d2)
    /\ IsE4 => \A d1, d2 \in E4Deltas :
                   TimeshiftBy(TimeshiftBy(Self, d1), d2) = TimeshiftBy(Self, d1 + d2)

\* C4's case: a Spacelabs reader was shifted twice, the second time by 20 s,
\* and holds what two shifts of 20 s make of the file's rows, which is not
\* what one shift of 40 s makes of them.
C4_Witness ==
    /\ IsSL /\ steps = 2
    /\ call = Called("timeshift", "Timedelta", 20, "")
    /\ data = ShiftBy(ShiftBy(SpacelabsReader(abp_in).data, 20), 20)
    /\ data # ShiftBy(SpacelabsReader(abp_in).data, 40)

Distinct(rows) ==
    \A i, j \in 1..Len(rows) : i # j => rows[i].timestamp # rows[j].timestamp

\* C5: drop_EB on the freshly read table keeps exactly the rows whose error
\* is not "EB", in their order, keyed by timestamp; when it returns, the
\* timestamps of the surviving rows are pairwise distinct, and when two
\* surviving rows share a timestamp it raises.
C5_DropEB ==
    [][ (IsSL /\ call'.name = "drop_EB" /\ index_name = "range") =>
            /\ call'.raised = "" =>
                   /\ data' = Surviving(data)
                   /\ index_name' = "timestamp"
                   /\ Distinct(data')
            /\ ~Distinct(Surviving(data)) => call'.raised # "" ]_vars

WindowOf(i) == [window_start |-> data[i].window_start, window_end |-> data[i].window_end]
WindowSet(window_type) ==
    /\ IsSL
    /\ call.name = "set_window" /\ call.kind = window_type /\ call.raised = ""

Reread == EmpaticaReader(e4_out)
RereadAbp == SpacelabsReader(abp_out)
Measured(r) ==
    [timestamp |-> r.timestamp, date |-> r.date, time |-> r.time,
     SYS |-> r.SYS, DIA |-> r.DIA, x |-> r.x, y |-> r.y, z |-> r.z,
     error |-> r.error]

\* C7: after write, reading the written files back gives what the reader
\* holds: for the Empatica reader the start instants, the sample rates and
\* every signal, the IBI series and the tags; for the Spacelabs reader the
\* subject, the rows with their missing cells and error flags, and the
\* metadata, in a file of the header layout of the file that was read.
C7_RoundTrip ==
    /\ (IsE4 /\ call.name = "write") =>
          /\ Reread.start_times = start_times
          /\ Reread.sample_freqs = sample_freqs
          /\ Reread.signals = signals
          /\ Reread.IBI = IBI
          /\ Reread.tags = tags
    /\ (IsSL /\ call.name = "write") =>
          /\ call.raised = ""
          /\ abp_out.header = abp_in.header
          /\ RereadAbp.ok
          /\ RereadAbp.subject = subject
          /\ RereadAbp.valid_measurements = valid_measurements
          /\ SeqMap(Measured, RereadAbp.data) = SeqMap(Measured, data)
          /\ RereadAbp.metadata = metadata

\* C8: in every state of an EmpaticaReader, element k of a present signal
\* has the timestamp start_times[signal] + k / sample_freqs[signal], for
\* every one of the samples that were read.
C8_Derivation ==
    IsE4 => \A n \in PresentSignals :
               /\ Len(signals[n].rows) = MaxSamples
               /\ \A k \in 1..Len(signals[n].rows) :
                      signals[n].rows[k].t =
                          start_times[n] + (k - 1) * Period(sample_freqs[n])

\* C9: deidentify sets the subject to the given identifier, or to the
\* placeholder when none is given, sets every leaf of the metadata to None
\* and keeps every key path, and leaves the rows as they were.
C9_Deidentify ==
    [][ (IsSL /\ call'.name = "deidentify") =>
            /\ subject' = IF call'.kind # "" THEN call'.kind ELSE Placeholder
            /\ DOMAIN metadata' = DOMAIN metadata
            /\ \A p \in DOMAIN metadata' : metadata'[p] = None
            /\ data' = data ]_vars

\* C10: set_window with a window type other than the three known ones
\* raises, and adds no column.
C10_UnknownPolicy ==
    (IsSL /\ call.name = "set_window" /\ call.kind \notin KnownWindowTypes)
        => /\ call.raised # ""
           /\ window_cols = {}

\* the files of which the reader holds a structure
Held ==
    { n \in SignalNames : signals[n].present }
        \cup (IF IBI.present THEN {"IBI"} ELSE {})
        \cup (IF tags.present THEN {"tags"} ELSE {})

\* C11: whichever of the files ACC, BVP, EDA, HR, TEMP, IBI and tags are
\* missing, the EmpaticaReader holds a start time for exactly the signal and
\* IBI files it read and a joined table exactly when it read some signal, and
\* every timeshift and write returns without raising and leaves the absent
\* structures absent and the present ones present.
C11_MissingTolerated ==
    [][ IsE4 =>
          /\ call'.raised = ""
          /\ Held' = Held
          /\ DOMAIN start_times' = Held' \ {"tags"}
          /\ joined'.present <=> (PresentSignals' # {}) ]_vars

\* C11's case: the anchored timeshift of a reader that read no signal file
\* and no IBI file.
C11_Case ==
    /\ IsE4
    /\ Held \subseteq {"tags"}
    /\ ~joined.present
    /\ call.name = "timeshift" /\ call.kind = "Timestamp"

Combined(i) == data[i].timestamp = Combine(data[i].date, data[i].time)
DateNonDecreasing(i) == data[i].date >= data[i - 1].date
TimeDecreases(i) == data[i].time < data[i - 1].time
OneDayLater(i) == data[i].date = data[i - 1].date + 1

\* C12 as claimed: in every state of a SpacelabsReader that was timeshifted,
\* filtered with drop_EB and given windows in any order, every row's
\* timestamp combines its date and its time of day, the dates do not
\* decrease from row to row, and a row's date is one day after the date of
\* the row before it exactly when its time of day is less than that row's,
\* and equal to it otherwise.
C12_RecordInvariant ==
    IsSL =>
        /\ \A i \in 1..Len(data) : Combined(i)
        /\ \A i \in 2..Len(data) :
               /\ DateNonDecreasing(i)
               /\ IF TimeDecreases(i) THEN OneDayLater(i)
                  ELSE data[i].date = data[i - 1].date

\* C12 as amended: every row's timestamp combines its date and its time of
\* day, the dates do not decrease, and a row whose time of day is less than
\* that of the row before it has a later date; as long as drop_EB has not
\* removed rows, the date is one day later exactly when the time of day
\* decreases and the same otherwise.
C12_RecordInvariantFiltered ==
    IsSL =>
        /\ \A i \in 1..Len(data) : Combined(i)
        /\ \A i \in 2..Len(data) :
               /\ DateNonDecreasing(i)
               /\ TimeDecreases(i) => data[i].date > data[i - 1].date
               /\ index_name = "range" =>
                      IF TimeDecreases(i) THEN OneDayLater(i)
                      ELSE data[i].date = data[i - 1].date

\* C12's case: rows were removed by drop_EB and the survivors then shifted
\* by a minute, and a survivor is a day after the one before it without an
\* earlier time of day.
C12_Witness ==
    /\ IsSL /\ index_name = "timestamp" /\ steps = 2
    /\ call = Called("timeshift", "Timedelta", 60, "")
    /\ \E i \in 2..Len(data) :
           /\ OneDayLater(i) /\ ~TimeDecreases(i)
           /\ Combined(i) /\ Combined(i - 1)

====
